---- MODULE Spec2Model ----
(***************************************************************************)
(* A model of src/encoder/ttfs.py: the TTFS spike encoder of lsm-ids.       *)
(*                                                                         *)
(* Numbers.  Python floats are modelled by integers in fixed units:        *)
(*   - feature values and range bounds are counted in units of 1e-9, so    *)
(*     the literal 1e-9 of the degenerate-range test is the integer 1;     *)
(*   - a normalised value is the exact fraction <<num, den>>;              *)
(*   - norm ** GAMMA is the floor of NORM_LEVELS * (num/den) ^ (7/10);     *)
(*   - times are counted in ticks, TICKS_PER_MS ticks to a millisecond;    *)
(*   - one draw of RAND.uniform(-JITTER_FRAC, JITTER_FRAC) is an integer   *)
(*     number of 1/JITTER_SCALE in -JITTER_FRAC .. JITTER_FRAC - 1;        *)
(*   - the float32 cast of the returned array rounds a time to the nearest *)
(*     multiple of F32_QUANTUM ticks.                                      *)
(* Feature names are sequences of code points, compared as Python compares *)
(* str: "B" = <<66>>, "a" = <<97>>, "ab" = <<97, 98>>.                     *)
(***************************************************************************)
EXTENDS Integers, Sequences, FiniteSets

\* ------------------------------------------------------------ constants

MAX_DELAY_MS == 20
NUM_RINGS == 6
TICKS_PER_MS == 300
MAX_DELAY == MAX_DELAY_MS * TICKS_PER_MS
RING_WIDTH == MAX_DELAY \div NUM_RINGS
\* GAMMA = 0.7 = GAMMA_NUM / GAMMA_DEN
GAMMA_NUM == 7
GAMMA_DEN == 10
\* JITTER_FRAC = 0.005 = JITTER_FRAC / JITTER_SCALE
JITTER_FRAC == 5
JITTER_SCALE == 1000
\* the literal 1e-9 of line 62, in value units, and its inverse for line 70
EPS == 1
INV_EPS == 1000000000
\* resolution of norm ** GAMMA
NORM_LEVELS == 8
\* spacing of the float32 grid of the returned array, in ticks
F32_QUANTUM == 3
\* largest integer below which every integer is a float32
F32_EXACT_INT == 16777216

\* ------------------------------------------------------------ bounds

\* encode is not called once the generator has handed out this many draws
MaxDraws == 18
\* the jitter stream repeats with this period; it does not divide NUM_RINGS,
\* so a call that starts NUM_RINGS draws later reads other draws
StreamPeriod == 4

NameB == <<66>>
NameA == <<97>>
NameAB == <<97, 98>>
Names == {NameB, NameA, NameAB}
KeySets == {{}, {NameA}, {NameAB, NameA}, {NameA, NameB}}
Ranges == {<<0, 8>>, <<5, 5>>, <<8, 0>>, <<0, 1>>, <<0, INV_EPS>>}
Values == {-3, 1, 5}
JitterDraws == {-JITTER_FRAC, JITTER_FRAC - 1}
EncIds == {1, 2}
\* the instance Spec builds; TwoIds are the instances SpecTwo builds
MainIds == {1}
TwoIds == {1, 2}

NoEncoder == [built |-> FALSE]
NoResult == <<>>

VARIABLES
    stream,      \* the draws RAND hands out, by position (fixed by the seed)
    rand_pos,    \* RAND: the number of draws handed out so far
    encoders,    \* the closures build_encoder has returned, by instance
    called,      \* the instance of the last encode call (0: none yet)
    record,      \* the argument of the last encode call
    call_pos,    \* rand_pos when the last encode call began
    status,      \* "none", "ok" or "KeyError": how the last encode call ended
    spikes,      \* the local list spikes of the last call, in append order
    origin,      \* for each entry of spikes, the <<feat_idx, r_idx>> that made it
    result,      \* the array the last call returned
    source,      \* the file handed to the last load_feature_ranges call
    load_status, \* "none", "ok", or the exception of the last load
    loaded,      \* the mapping the last load returned
    own_draws    \* by instance, the draws the calls on it have consumed

vars == <<stream, rand_pos, encoders, called, record, call_pos, status,
          spikes, origin, result, source, load_status, loaded, own_draws>>

\* ------------------------------------------------------------ helpers

Min(a, b) == IF a < b THEN a ELSE b
Max(a, b) == IF a > b THEN a ELSE b

\* np.clip(x, lo, hi)
Clip(x, lo, hi) == Min(Max(x, lo), hi)

RECURSIVE Pow(_, _)
Pow(b, e) == IF e = 0 THEN 1 ELSE b * Pow(b, e - 1)

\* a < b for two str, as Python compares them: code point by code point,
\* a proper prefix first
RECURSIVE LexLess(_, _)
LexLess(a, b) ==
    IF b = <<>> THEN FALSE
    ELSE IF a = <<>> THEN TRUE
    ELSE IF Head(a) # Head(b) THEN Head(a) < Head(b)
    ELSE LexLess(Tail(a), Tail(b))

\* sorted(keys): ascending, by repeatedly taking the least key
RECURSIVE Sorted(_)
Sorted(keys) ==
    IF keys = {} THEN <<>>
    ELSE LET least == CHOOSE k \in keys : \A o \in keys \ {k} : LexLess(k, o)
         IN  <<least>> \o Sorted(keys \ {least})

\* ------------------------------------------------------------ build_encoder

\* a feature-major layout instead of the ring-major one
calc_channel_idx_FeatureMajor(n_feats, feature_idx, ring_idx) ==
    feature_idx * NUM_RINGS + ring_idx

\* line 46
calc_channel_idx(n_feats, feature_idx, ring_idx) ==
    ring_idx * n_feats + feature_idx

\* a topology built from the non-degenerate features only
BuildEncoder_DropDegenerate(feature_ranges, skip_zeros) ==
    LET num_cols == Sorted({k \in DOMAIN feature_ranges :
                              feature_ranges[k][2] - feature_ranges[k][1] >= EPS})
        n_feats == Len(num_cols)
    IN  [built |-> TRUE,
         feature_ranges |-> feature_ranges,
         skip_zeros |-> skip_zeros,
         num_cols |-> num_cols,
         n_feats |-> n_feats,
         num_neurons |-> NUM_RINGS * n_feats,
         feature_list |-> num_cols]

\* lines 36-39 and 88-91: the closure and the attributes set on it
BuildEncoder(feature_ranges, skip_zeros) ==
    LET num_cols == Sorted(DOMAIN feature_ranges)
        n_feats == Len(num_cols)
    IN  [built |-> TRUE,
         feature_ranges |-> feature_ranges,
         skip_zeros |-> skip_zeros,
         num_cols |-> num_cols,
         n_feats |-> n_feats,
         num_neurons |-> NUM_RINGS * n_feats,
         feature_list |-> num_cols]

\* ------------------------------------------------------------ encode

\* a test for an exactly constant feature only
IsDegenerate_ZeroOnly(delta_value) == delta_value = 0

\* line 62: delta_value < 1e-9
IsDegenerate(delta_value) == delta_value < EPS

\* lines 66-67: clip((value - min) / delta, 0.0, 1.0), as a fraction
NormValue(value, min_value, delta_value) ==
    LET num == value - min_value
    IN  IF num <= 0 THEN <<0, 1>>
        ELSE IF num >= delta_value THEN <<1, 1>>
        ELSE <<num, delta_value>>

\* norm_value < 1e-9, that is num * INV_EPS < den
IsNearZero_Strict(norm_value) ==
    norm_value[1] <= (norm_value[2] - 1) \div INV_EPS

\* line 70: norm_value <= 1e-9, that is num * INV_EPS <= den
IsNearZero(norm_value) == norm_value[1] <= norm_value[2] \div INV_EPS

\* line 70: the whole test
SkipsZero(skip_zeros, norm_value) == skip_zeros /\ IsNearZero(norm_value)

\* line 77: (n / NORM_LEVELS) ** GAMMA in 1/NORM_LEVELS, rounded down: the
\* largest y with (y / NORM_LEVELS)^GAMMA_DEN <= (n / NORM_LEVELS)^GAMMA_NUM
PowLevel[n \in 0..NORM_LEVELS] ==
    LET bound == Pow(n, GAMMA_NUM) * Pow(NORM_LEVELS, GAMMA_DEN - GAMMA_NUM)
    IN  CHOOSE y \in 0..NORM_LEVELS :
            /\ Pow(y, GAMMA_DEN) <= bound
            /\ y < NORM_LEVELS => Pow(y + 1, GAMMA_DEN) > bound

\* line 77: norm_value ** GAMMA in 1/NORM_LEVELS
PowGamma(norm_value) ==
    PowLevel[(NORM_LEVELS * norm_value[1]) \div norm_value[2]]

\* line 75
RingBase(r_idx) == r_idx * RING_WIDTH

\* base + RING_WIDTH * norm_value ** GAMMA: larger values fire later
RawDelay_Rising(norm_value, r_idx) ==
    RingBase(r_idx) + (RING_WIDTH * PowGamma(norm_value)) \div NORM_LEVELS

\* line 77: base + RING_WIDTH * (1.0 - norm_value ** GAMMA)
RawDelay(norm_value, r_idx) ==
    RingBase(r_idx)
        + (RING_WIDTH * (NORM_LEVELS - PowGamma(norm_value))) \div NORM_LEVELS

\* line 79: the term RAND.uniform(...) * RING_WIDTH for the draw u
Jitter(u) == (u * RING_WIDTH) \div JITTER_SCALE

\* no clipping after the jitter
ClipDelay_None(delay, r_idx) == delay

\* line 80: np.clip(delay, base, base + RING_WIDTH)
ClipDelay(delay, r_idx) ==
    Clip(delay, RingBase(r_idx), RingBase(r_idx) + RING_WIDTH)

\* lines 75-80: the delay of one spike, given the draw u
SpikeDelay(norm_value, r_idx, u) ==
    ClipDelay(RawDelay(norm_value, r_idx) + Jitter(u), r_idx)

\* RAND.uniform(-JITTER_FRAC, JITTER_FRAC) when pos draws were handed out
RandUniform(pos) == stream[pos % StreamPeriod]

\* record.get(col_name, 0): a missing key reads as 0
Lookup_Default(rec, col_name) ==
    IF col_name \in DOMAIN rec
    THEN [found |-> TRUE, value |-> rec[col_name]]
    ELSE [found |-> TRUE, value |-> 0]

\* line 66: record[col_name], which raises KeyError for a key the record lacks
Lookup(rec, col_name) ==
    IF col_name \in DOMAIN rec
    THEN [found |-> TRUE, value |-> rec[col_name]]
    ELSE [found |-> FALSE, value |-> 0]

\* one draw per feature, shared by its rings
RingSpikes_OneDraw(n_feats, feat_idx, norm_value, r_idx, pos) ==
    [i \in 1..(NUM_RINGS - r_idx) |->
        <<calc_channel_idx(n_feats, feat_idx, r_idx + i - 1),
          SpikeDelay(norm_value, r_idx + i - 1, RandUniform(pos))>>]

\* lines 74-82: the spikes of one feature, ring by ring from r_idx
RECURSIVE RingSpikes(_, _, _, _, _)
RingSpikes(n_feats, feat_idx, norm_value, r_idx, pos) ==
    IF r_idx >= NUM_RINGS THEN <<>>
    ELSE <<  <<calc_channel_idx(n_feats, feat_idx, r_idx),
               SpikeDelay(norm_value, r_idx, RandUniform(pos))>>  >>
         \o RingSpikes(n_feats, feat_idx, norm_value, r_idx + 1, pos + 1)

RingOrigins(feat_idx) == [i \in 1..NUM_RINGS |-> <<feat_idx, i - 1>>]

\* lines 57-82: the loop over the features from feat_idx on; acc is what the
\* loop has built so far
RECURSIVE EncodeFrom(_, _, _, _)
EncodeFrom(enc, rec, feat_idx, acc) ==
    IF feat_idx >= enc.n_feats THEN [acc EXCEPT !.status = "ok"]
    ELSE
      LET col_name == enc.num_cols[feat_idx + 1]
          min_value == enc.feature_ranges[col_name][1]
          max_value == enc.feature_ranges[col_name][2]
          delta_value == max_value - min_value
      IN  IF IsDegenerate(delta_value)
          THEN EncodeFrom(enc, rec, feat_idx + 1, acc)
          ELSE IF ~Lookup(rec, col_name).found
          THEN [acc EXCEPT !.status = "KeyError"]
          ELSE
            LET norm_value == NormValue(Lookup(rec, col_name).value,
                                        min_value, delta_value)
            IN  IF SkipsZero(enc.skip_zeros, norm_value)
                THEN EncodeFrom(enc, rec, feat_idx + 1, acc)
                ELSE EncodeFrom(enc, rec, feat_idx + 1,
                       [acc EXCEPT
                          !.spikes = @ \o RingSpikes(enc.n_feats, feat_idx,
                                                     norm_value, 0, acc.pos),
                          !.origin = @ \o RingOrigins(feat_idx),
                          !.pos = @ + NUM_RINGS])

\* lines 54-82: the body of encode up to the sort, begun with pos draws used
EncodeRun(enc, rec, pos) ==
    EncodeFrom(enc, rec, 0,
               [status |-> "running", spikes |-> <<>>, origin |-> <<>>,
                pos |-> pos])

\* line 85: spikes.sort(key=lambda x: x[1]); Python's sort is stable
RECURSIVE InsertByDelay(_, _)
InsertByDelay(sorted, s) ==
    IF sorted = <<>> THEN <<s>>
    ELSE IF sorted[Len(sorted)][2] <= s[2] THEN Append(sorted, s)
    ELSE Append(InsertByDelay(SubSeq(sorted, 1, Len(sorted) - 1), s),
                sorted[Len(sorted)])

RECURSIVE SortFrom(_, _, _)
SortFrom(list, i, sorted) ==
    IF i > Len(list) THEN sorted
    ELSE SortFrom(list, i + 1, InsertByDelay(sorted, list[i]))

\* no sort at all
SortByDelay_None(list) == list

SortByDelay(list) == SortFrom(list, 1, <<>>)

\* line 86: the float32 nearest to a time
Float32(t) ==
    LET down == (t \div F32_QUANTUM) * F32_QUANTUM
    IN  IF 2 * (t - down) < F32_QUANTUM THEN down ELSE down + F32_QUANTUM

\* line 86: the float32 nearest to a channel index
Float32Int(n) ==
    IF n <= F32_EXACT_INT THEN n ELSE (n \div 2) * 2

\* line 86: np.asarray(spikes, dtype=np.float32)
AsFloat32(list) ==
    [i \in 1..Len(list) |-> <<Float32Int(list[i][1]), Float32(list[i][2])>>]

\* lines 85-86, or the exception leaving encode: what the caller gets
Returns(run) ==
    IF run.status = "ok" THEN AsFloat32(SortByDelay(run.spikes)) ELSE NoResult

\* ------------------------------------------------------------ load_feature_ranges

\* A source is [exists, entries]: whether the path exists, and the members of
\* the JSON object in file order, each <<key, array>>. An array element is a
\* JSON number, string (a sequence of characters) or null.
Num(n) == [t |-> "num", v |-> n]
Str(chars) == [t |-> "str", v |-> chars]
Null == [t |-> "null", v |-> 0]

Digits == {"0", "1", "2", "3", "4", "5", "6", "7", "8", "9"}
DigitValue(c) ==
    CASE c = "0" -> 0 [] c = "1" -> 1 [] c = "2" -> 2 [] c = "3" -> 3
      [] c = "4" -> 4 [] c = "5" -> 5 [] c = "6" -> 6 [] c = "7" -> 7
      [] c = "8" -> 8 [] c = "9" -> 9

\* float(s) for a str of decimal digits
RECURSIVE ParseDigits(_, _)
ParseDigits(chars, acc) ==
    IF chars = <<>> THEN acc
    ELSE ParseDigits(Tail(chars), acc * 10 + DigitValue(Head(chars)))

\* line 28: float(x) for one JSON element
FloatOf(x) ==
    CASE x.t = "num" -> [status |-> "ok", value |-> x.v]
      [] x.t = "str" ->
            IF x.v # <<>> /\ \A i \in DOMAIN x.v : x.v[i] \in Digits
            THEN [status |-> "ok", value |-> ParseDigits(x.v, 0)]
            ELSE [status |-> "ValueError", value |-> 0]
      [] OTHER -> [status |-> "TypeError", value |-> 0]

\* line 28: (float(v[0]), float(v[1])) for one array v, left to right
PairOf(v) ==
    IF Len(v) < 1 THEN [status |-> "IndexError", value |-> <<>>]
    ELSE LET lo == FloatOf(v[1])
         IN  IF lo.status # "ok" THEN [status |-> lo.status, value |-> <<>>]
             ELSE IF Len(v) < 2 THEN [status |-> "IndexError", value |-> <<>>]
             ELSE LET hi == FloatOf(v[2])
                  IN  IF hi.status # "ok"
                      THEN [status |-> hi.status, value |-> <<>>]
                      ELSE [status |-> "ok", value |-> <<lo.value, hi.value>>]

\* lines 23-28: load_feature_ranges(path)
LoadFeatureRanges(src) ==
    IF ~src.exists THEN [status |-> "FileNotFoundError", value |-> <<>>]
    ELSE
      LET bad == {i \in DOMAIN src.entries : PairOf(src.entries[i][2]).status # "ok"}
      IN  IF bad # {}
          THEN LET first == CHOOSE i \in bad : \A j \in bad : i <= j
               IN  [status |-> PairOf(src.entries[first][2]).status,
                    value |-> <<>>]
          ELSE [status |-> "ok",
                value |-> [k \in {src.entries[i][1] : i \in DOMAIN src.entries} |->
                             PairOf((CHOOSE m \in {src.entries[i] : i \in DOMAIN src.entries} :
                                        m[1] = k)[2]).value]]

\* ------------------------------------------------------------ the machine

Registries == UNION {[keys -> Ranges] : keys \in KeySets}
Records(enc) ==
    IF enc.built
    THEN UNION {[keys -> Values] : keys \in SUBSET (DOMAIN enc.feature_ranges)}
    ELSE {}

NoSource == [exists |-> FALSE, entries |-> <<>>]

Elems == {Num(0), Num(8), Str(<<"8">>), Str(<<"x">>), Null}
Pairs == {<<a, b>> : a, b \in Elems}
Arrays == {<<>>} \cup {<<a>> : a \in Elems} \cup Pairs
              \cup {p \o <<Num(8)>> : p \in Pairs}
FirstArrays == {<<Num(0), Num(8)>>, <<Num(0), Num(8), Num(8)>>, <<Num(8)>>,
                <<Str(<<"x">>), Num(8)>>}
Sources ==
    {[exists |-> FALSE, entries |-> <<>>], [exists |-> TRUE, entries |-> <<>>]}
    \cup {[exists |-> TRUE, entries |-> << <<NameA, a>> >>] : a \in Arrays}
    \cup {[exists |-> TRUE, entries |-> << <<NameB, a>>, <<NameA, b>> >>] :
             a \in FirstArrays, b \in Arrays}

ZeroStream == [i \in 0..(StreamPeriod - 1) |-> 0]

InitWith(streams) ==
    /\ stream \in streams
    /\ rand_pos = 0
    /\ encoders = [e \in EncIds |-> NoEncoder]
    /\ called = 0
    /\ record = <<>>
    /\ call_pos = 0
    /\ status = "none"
    /\ spikes = <<>>
    /\ origin = <<>>
    /\ result = NoResult
    /\ source = NoSource
    /\ load_status = "none"
    /\ loaded = <<>>
    /\ own_draws = [e \in EncIds |-> 0]

Init == InitWith([0..(StreamPeriod - 1) -> JitterDraws])

\* load_feature_ranges(path) on the source src
Load(src) ==
    /\ source' = src
    /\ \E run \in {LoadFeatureRanges(src)} :
           /\ load_status' = run.status
           /\ loaded' = run.value
    /\ UNCHANGED <<stream, rand_pos, encoders, called, record, call_pos,
                   status, spikes, origin, result, own_draws>>

\* build_encoder(feature_ranges, skip_zeros), returning instance e
Build(e, feature_ranges, skip_zeros) ==
    /\ ~encoders[e].built
    /\ encoders' = [encoders EXCEPT ![e] = BuildEncoder(feature_ranges, skip_zeros)]
    /\ UNCHANGED <<stream, rand_pos, called, record, call_pos, status, spikes,
                   origin, result, source, load_status, loaded, own_draws>>

\* encode(rec) on instance e
Encode(e, rec) ==
    /\ encoders[e].built
    /\ rand_pos + encoders[e].num_neurons <= MaxDraws
    /\ \E run \in {EncodeRun(encoders[e], rec, rand_pos)} :
           /\ rand_pos' = run.pos
           /\ status' = run.status
           /\ spikes' = run.spikes
           /\ origin' = run.origin
           /\ result' = Returns(run)
           /\ own_draws' = [own_draws EXCEPT ![e] = @ + (run.pos - rand_pos)]
    /\ called' = e
    /\ record' = rec
    /\ call_pos' = rand_pos
    /\ UNCHANGED <<stream, encoders, source, load_status, loaded>>

Next ==
    \/ \E e \in MainIds, fr \in Registries, sz \in BOOLEAN : Build(e, fr, sz)
    \/ \E e \in MainIds : \E rec \in Records(encoders[e]) : Encode(e, rec)

Spec == Init /\ [][Next]_vars

\* The same machine with a generator whose every draw is 0 (no jitter).
InitZeroJitter == InitWith({ZeroStream})
SpecZeroJitter == InitZeroJitter /\ [][Next]_vars

\* Two encoders built by separate build_encoder calls, each from a registry
\* of one feature, and encode calls on them in any order.
TwoRegistries == {[k \in {NameA} |-> <<0, 8>>], [k \in {NameA} |-> <<0, 1>>]}
NextTwo ==
    \/ \E e \in TwoIds, fr \in TwoRegistries, sz \in BOOLEAN : Build(e, fr, sz)
    \/ \E e \in TwoIds : \E rec \in Records(encoders[e]) : Encode(e, rec)
SpecTwo == Init /\ [][NextTwo]_vars

\* The generator handing out draws one jitter step apart, all positive.
TieDraws == {JITTER_FRAC - 2, JITTER_FRAC - 1}
InitTies == InitWith([0..(StreamPeriod - 1) -> TieDraws])
SpecTies == InitTies /\ [][Next]_vars

\* load_feature_ranges alone, applied to every source.
NextLoad == \E src \in Sources : Load(src)
SpecLoad == InitZeroJitter /\ [][NextLoad]_vars

\* ------------------------------------------------------------ claims

\* the last encode call returned / raised, and the closure it was made on
Returned == called \in EncIds /\ status = "ok"
Failed == called \in EncIds /\ status = "KeyError"
Last == encoders[called]

Rings == 0..(NUM_RINGS - 1)
FeatureIdxs(enc) == 0..(enc.n_feats - 1)
NameOf(enc, f) == enc.feature_list[f + 1]
RangeOf(enc, f) == enc.feature_ranges[NameOf(enc, f)]
\* max - min < 1e-9
DegenerateRange(rng) == rng[2] - rng[1] < EPS
RingOfChannel(enc, ch) == ch \div enc.n_feats
FeatureOfChannel(enc, ch) == ch % enc.n_feats
OnChannel(list, ch) == {i \in DOMAIN list : list[i][1] = ch}
InWindow(d, lo, hi) == lo <= d /\ d <= hi

\* C1 as stated: every spike encode emits has 0 <= delay < max_delay_ms and
\* lies in [base, base + ring_width] of its channel's ring.
C1_DelayBelowMax ==
    Returned =>
        \A i \in DOMAIN spikes :
            LET d == spikes[i][2]
                r == RingOfChannel(Last, spikes[i][1])
            IN  /\ 0 <= d /\ d < MAX_DELAY
                /\ InWindow(d, RingBase(r), RingBase(r) + RING_WIDTH)

\* C1 as amended: every spike encode emits has 0 <= delay <= max_delay_ms
\* and lies in [base, base + ring_width] of its channel's ring, whatever the
\* draw; every delay of the returned float32 array lies in [0, max_delay_ms]
\* and between the float32 values of its ring's two edges.
C1_DelayWithinRing ==
    called \in EncIds =>
        /\ \A i \in DOMAIN spikes :
              LET d == spikes[i][2]
                  r == RingOfChannel(Last, spikes[i][1])
              IN  /\ 0 <= d /\ d <= MAX_DELAY
                  /\ InWindow(d, RingBase(r), RingBase(r) + RING_WIDTH)
        /\ \A j \in DOMAIN result :
              LET d == result[j][2]
                  r == RingOfChannel(Last, result[j][1])
              IN  /\ 0 <= d /\ d <= MAX_DELAY
                  /\ InWindow(d, Float32(RingBase(r)),
                              Float32(RingBase(r) + RING_WIDTH))

\* a returned spike of the last ring pushed past max_delay_ms by a positive
\* draw and clipped back onto it
C1_Witness ==
    /\ Returned
    /\ \E i \in DOMAIN spikes :
          /\ spikes[i][2] = MAX_DELAY
          /\ RandUniform(call_pos + i - 1) > 0
    /\ \E j \in DOMAIN result : result[j][2] = MAX_DELAY

\* C2: the spike list every encode call returns is in non-decreasing order
\* of delay.
C2_SortedByDelay ==
    Returned =>
        \A i, j \in DOMAIN result : i < j => result[i][2] <= result[j][2]

\* two features spiked and the list was out of order before the sort
C2_Witness ==
    /\ Returned
    /\ Len(result) = 2 * NUM_RINGS
    /\ \E i \in 1..(Len(spikes) - 1) : spikes[i][2] > spikes[i + 1][2]

\* C3: feature_list is the registry's whole key set in ascending order,
\* degenerate features included, num_neurons = NUM_RINGS * len(feature_list),
\* and no later step changes a built encoder.
C3_TopologyFixed ==
    [][\A e \in EncIds :
          /\ encoders'[e].built =>
                LET enc == encoders'[e]
                    fl == enc.feature_list
                IN  /\ {fl[i] : i \in DOMAIN fl} = DOMAIN enc.feature_ranges
                    /\ Len(fl) = Cardinality(DOMAIN enc.feature_ranges)
                    /\ \A i, j \in DOMAIN fl : i < j => LexLess(fl[i], fl[j])
                    /\ enc.num_neurons = NUM_RINGS * Len(fl)
          /\ encoders[e].built => encoders'[e] = encoders[e]]_vars

\* an encoder of two features, one of them degenerate, after a call that
\* returned spikes
C3_Witness ==
    /\ Returned
    /\ result # <<>>
    /\ Last.n_feats = 2
    /\ \E k \in DOMAIN Last.feature_ranges : DegenerateRange(Last.feature_ranges[k])
    /\ Last.feature_list = <<NameB, NameA>>

\* C4: (feature_idx, ring_idx) -> ring_idx * n_feats + feature_idx is one to
\* one from [0, n_feats) x [0, NUM_RINGS) onto [0, num_neurons), inverted by
\* (id mod n_feats, id div n_feats); every channel encode emits decodes to
\* the feature and ring that made it, and the returned array holds exactly
\* those channels.
C4_ChannelBijection ==
    \A e \in EncIds :
        encoders[e].built =>
            LET enc == encoders[e]
                ids == 0..(enc.num_neurons - 1)
            IN  /\ \A f \in FeatureIdxs(enc), r \in Rings :
                      LET ch == calc_channel_idx(enc.n_feats, f, r)
                      IN  /\ ch \in ids
                          /\ FeatureOfChannel(enc, ch) = f
                          /\ RingOfChannel(enc, ch) = r
                /\ \A ch \in ids :
                      \E f \in FeatureIdxs(enc), r \in Rings :
                          calc_channel_idx(enc.n_feats, f, r) = ch
                /\ e = called =>
                      /\ \A i \in DOMAIN spikes :
                            /\ spikes[i][1] \in ids
                            /\ origin[i] = <<FeatureOfChannel(enc, spikes[i][1]),
                                             RingOfChannel(enc, spikes[i][1])>>
                            /\ NameOf(enc, FeatureOfChannel(enc, spikes[i][1]))
                                  = enc.num_cols[origin[i][1] + 1]
                      /\ status = "ok" =>
                            /\ Len(result) = Len(spikes)
                            /\ \A i \in DOMAIN spikes :
                                  Cardinality(OnChannel(result, spikes[i][1])) = 1

\* both features of a two-feature encoder spiked on every ring
C4_Witness ==
    /\ Returned
    /\ Last.n_feats = 2
    /\ Len(result) = 2 * NUM_RINGS

\* C5: a feature whose range has max - min < 1e-9 (min > max included) has
\* no spike on any of its channels, in any call, for any record.
C5_DegenerateSilent ==
    called \in EncIds =>
        \A f \in FeatureIdxs(Last) :
            DegenerateRange(RangeOf(Last, f)) =>
                \A r \in Rings :
                    /\ OnChannel(spikes, r * Last.n_feats + f) = {}
                    /\ OnChannel(result, r * Last.n_feats + f) = {}

\* a feature with min > max whose key the record holds, in a call that
\* returned the spikes of another feature
C5_Witness ==
    /\ Returned
    /\ result # <<>>
    /\ \E f \in FeatureIdxs(Last) :
          /\ RangeOf(Last, f)[2] < RangeOf(Last, f)[1]
          /\ NameOf(Last, f) \in DOMAIN record

\* the record's value of feature f normalises to at most 1e-9
NearZero(enc, f, rec) ==
    /\ ~DegenerateRange(RangeOf(enc, f))
    /\ NameOf(enc, f) \in DOMAIN rec
    /\ LET num == rec[NameOf(enc, f)] - RangeOf(enc, f)[1]
           delta == RangeOf(enc, f)[2] - RangeOf(enc, f)[1]
       IN  num <= 0 \/ num <= delta \div INV_EPS

\* C6: for a non-degenerate feature whose normalised value is <= 1e-9, a
\* call with skip_zeros returns no spike on its channels; a call without
\* returns exactly NUM_RINGS spikes for it, one per ring, each within the
\* jitter of the late edge base + ring_width of its ring and not beyond it.
C6_SkipZeros ==
    Returned =>
        \A f \in FeatureIdxs(Last) :
            NearZero(Last, f, record) =>
                \A r \in Rings :
                    LET ch == r * Last.n_feats + f
                        edge == RingBase(r) + RING_WIDTH
                    IN  IF Last.skip_zeros
                        THEN OnChannel(result, ch) = {}
                        ELSE /\ Cardinality(OnChannel(result, ch)) = 1
                             /\ Cardinality({j \in DOMAIN result :
                                    FeatureOfChannel(Last, result[j][1]) = f})
                                  = NUM_RINGS
                             /\ \A j \in OnChannel(result, ch) :
                                    InWindow(result[j][2],
                                             Float32(edge - Jitter(JITTER_FRAC)),
                                             Float32(edge))

\* without skip_zeros, a value just above the minimum (norm = 1e-9 exactly)
\* spiked on all its rings
C6_Witness ==
    /\ Returned
    /\ ~Last.skip_zeros
    /\ \E f \in FeatureIdxs(Last) :
          /\ NearZero(Last, f, record)
          /\ record[NameOf(Last, f)] > RangeOf(Last, f)[1]
          /\ \A r \in Rings : OnChannel(result, r * Last.n_feats + f) # {}

\* the record lacks the key of some feature / of some non-degenerate feature
LacksKey(enc, rec) ==
    \E f \in FeatureIdxs(enc) : NameOf(enc, f) \notin DOMAIN rec
LacksUsedKey(enc, rec) ==
    \E f \in FeatureIdxs(enc) :
        /\ NameOf(enc, f) \notin DOMAIN rec
        /\ ~DegenerateRange(RangeOf(enc, f))

\* C7 as stated: a call whose record lacks any key of feature_list fails
\* with the missing-key error and returns nothing.
C7_AnyMissingKeyFails ==
    (called \in EncIds /\ LacksKey(Last, record)) =>
        status = "KeyError" /\ result = NoResult

\* C7 as amended: a call whose record lacks the key of a non-degenerate
\* feature fails with KeyError and returns nothing; a call whose record
\* holds the keys of all non-degenerate features returns.
C7_MissingUsedKeyFails ==
    called \in EncIds =>
        IF LacksUsedKey(Last, record)
        THEN status = "KeyError" /\ result = NoResult
        ELSE status = "ok"

\* the second feature's key is missing: the first feature's spikes were
\* built and dropped
C7_Witness ==
    /\ Failed
    /\ spikes # <<>>
    /\ result = NoResult
    /\ LacksUsedKey(Last, record)

\* C8: a call that fails for a missing key leaves the generator where it
\* was when the call began.
C8_FailedCallKeepsGenerator ==
    Failed => rand_pos = call_pos

\* a JSON element float() accepts, and an array that is a 2-element pair
NumericElem(x) ==
    \/ x.t = "num"
    \/ x.t = "str" /\ x.v # <<>> /\ \A i \in DOMAIN x.v : x.v[i] \in Digits
NumericPair(v) == Len(v) = 2 /\ NumericElem(v[1]) /\ NumericElem(v[2])

\* C9: load fails with not-found for a missing source, fails with a format
\* error when some entry is not a 2-element numeric pair, and otherwise
\* returns each name mapped to (float(min), float(max)).
C9_LoadValidates ==
    load_status # "none" =>
        LET entries == source.entries
            names == {entries[i][1] : i \in DOMAIN entries}
        IN  /\ ~source.exists => load_status = "FileNotFoundError"
            /\ (source.exists /\ \E i \in DOMAIN entries : ~NumericPair(entries[i][2]))
                  => load_status \in {"IndexError", "ValueError", "TypeError"}
            /\ (source.exists /\ \A i \in DOMAIN entries : NumericPair(entries[i][2]))
                  => /\ load_status = "ok"
                     /\ DOMAIN loaded = names
                     /\ \A i \in DOMAIN entries :
                           loaded[entries[i][1]] =
                               <<FloatOf(entries[i][2][1]).value,
                                 FloatOf(entries[i][2][2]).value>>

\* the delay the list holds on channel ch
DelayOn(list, ch) == list[CHOOSE i \in OnChannel(list, ch) : TRUE][2]

\* the delays of feature f do not fall later when its value goes from that
\* of the last call to v
NotLater(f, v, equal) ==
    \A other \in {Returns(EncodeRun(Last,
                     [record EXCEPT ![NameOf(Last, f)] = v], call_pos))} :
        \A r \in Rings :
            LET ch == r * Last.n_feats + f
            IN  (OnChannel(result, ch) # {} /\ OnChannel(other, ch) # {}) =>
                    IF equal
                    THEN DelayOn(other, ch) = DelayOn(result, ch)
                    ELSE DelayOn(other, ch) <= DelayOn(result, ch)

\* C10: with every draw 0, raising the value of one non-degenerate feature
\* and keeping the rest of the record never makes a spike of that feature
\* later, on any ring; a value at or above max gives the delays of max, a
\* value at or below min those of min.
C10_Monotone ==
    Returned =>
        \A f \in FeatureIdxs(Last) :
            LET name == NameOf(Last, f)
                rng == RangeOf(Last, f)
            IN  (~DegenerateRange(rng) /\ name \in DOMAIN record) =>
                    /\ \A v \in Values \cup {rng[1], rng[2]} :
                          v >= record[name] => NotLater(f, v, FALSE)
                    /\ record[name] >= rng[2] => NotLater(f, rng[2], TRUE)
                    /\ record[name] <= rng[1] => NotLater(f, rng[1], TRUE)

\* a larger value of a spiking feature gives a strictly earlier spike
C10_Witness ==
    /\ Returned
    /\ \E f \in FeatureIdxs(Last) :
          /\ ~DegenerateRange(RangeOf(Last, f))
          /\ NameOf(Last, f) \in DOMAIN record
          /\ \E v \in Values :
                /\ v > record[NameOf(Last, f)]
                /\ \E other \in {Returns(EncodeRun(Last,
                         [record EXCEPT ![NameOf(Last, f)] = v], call_pos))} :
                      /\ OnChannel(result, f) # {}
                      /\ OnChannel(other, f) # {}
                      /\ DelayOn(other, f) < DelayOn(result, f)

\* C11: an encoder's returns do not depend on the calls made on another
\* encoder: every call ends as it would have with a generator that only the
\* calls on its own instance had drawn from.
C11_InstancesIndependent ==
    called \in EncIds =>
        \E alone \in {EncodeRun(Last, record,
                                own_draws[called] - (rand_pos - call_pos))} :
            /\ status = alone.status
            /\ result = Returns(alone)

\* <<feature index, ring index>> of the spike on a channel, and its order
GenerationOf(enc, ch) == <<FeatureOfChannel(enc, ch), RingOfChannel(enc, ch)>>
GeneratedBefore(g, h) == g[1] < h[1] \/ (g[1] = h[1] /\ g[2] < h[2])

\* C12: in every returned spike list, two spikes with the same delay in the
\* returned array are in generation order: the earlier one has the smaller
\* (feature index, ring index).
C12_OutputTiesInGenerationOrder ==
    Returned =>
        \A j, k \in DOMAIN result :
            (j < k /\ result[j][2] = result[k][2]) =>
                GeneratedBefore(GenerationOf(Last, result[j][1]),
                                GenerationOf(Last, result[k][1]))

\* the loop of a call on rec gets as far as feature f: every feature before
\* it is degenerate or has its key in rec
Reaches(enc, rec, f) ==
    \A g \in 0..(f - 1) :
        DegenerateRange(RangeOf(enc, g)) \/ NameOf(enc, g) \in DOMAIN rec
\* feature f is neither skipped as degenerate nor as zero in a call on rec
Contributes(enc, rec, f) ==
    /\ Reaches(enc, rec, f)
    /\ ~DegenerateRange(RangeOf(enc, f))
    /\ NameOf(enc, f) \in DOMAIN rec
    /\ ~(enc.skip_zeros /\ NearZero(enc, f, rec))
NormOf(enc, rec, f) ==
    NormValue(rec[NameOf(enc, f)], RangeOf(enc, f)[1],
              RangeOf(enc, f)[2] - RangeOf(enc, f)[1])

\* one encode call on enc with rec, from a generator that had handed out
\* pos draws to one that has handed out pos2, having emitted em from org
DrawPerSpike(enc, rec, pos, pos2, em, org) ==
    /\ pos2 = pos + Len(em)
    /\ Len(em) = 0 => pos2 = pos
    /\ Len(org) = Len(em)
    /\ \A i, j \in DOMAIN org : i < j => GeneratedBefore(org[i], org[j])
    /\ {org[i] : i \in DOMAIN org} =
          {f \in FeatureIdxs(enc) : Contributes(enc, rec, f)} \X Rings
    /\ \A i \in DOMAIN em :
          em[i] = <<org[i][2] * enc.n_feats + org[i][1],
                    SpikeDelay(NormOf(enc, rec, org[i][1]), org[i][2],
                               stream[(pos + i - 1) % StreamPeriod])>>

\* C13: the generator is never reseeded and only encode draws from it; a
\* call emits NUM_RINGS spikes for each contributing feature, in ascending
\* (feature index, ring index), none for a feature skipped as degenerate or
\* zero, and its i-th emitted spike takes the i-th draw after those of the
\* calls before it; a call that emits no spike leaves the generator as it was.
C13_OneDrawPerSpike ==
    [][/\ stream' = stream
       /\ IF encoders' # encoders
          THEN rand_pos' = rand_pos
          ELSE /\ called' \in EncIds
               /\ call_pos' = rand_pos
               /\ DrawPerSpike(encoders[called'], record', rand_pos, rand_pos',
                               spikes', origin')]_vars

\* a call that began after earlier draws, on an encoder of two features of
\* which one was skipped and the other emitted its NUM_RINGS spikes
C13_Witness ==
    /\ Returned
    /\ call_pos > 0
    /\ Last.n_feats = 2
    /\ Len(spikes) = NUM_RINGS
    /\ rand_pos = call_pos + NUM_RINGS
    /\ \E i \in DOMAIN spikes : spikes[i][2] # SpikeDelay(
           NormOf(Last, record, origin[i][1]), origin[i][2], stream[0])

====
